---------------------------- MODULE Spec2Model ----------------------------
(***************************************************************************)
(* A model of PyAMI's IBIS support (package pyibisami):                    *)
(*   - IBISModelBase / IBISModel: construction from a parsed IBIS file and *)
(*     the component -> pin -> model selection cascade, with the Traits    *)
(*     change-notification rules the handlers run under;                   *)
(*   - ModelBase / Model: validation of a [Model] section, the split of    *)
(*     the [Algorithmic Model] executables by bit width and OS, and the    *)
(*     choice of the executable pair for the host.                         *)
(*                                                                         *)
(* Python values are modelled as follows.  A dict whose key order matters  *)
(* is a record [keys |-> <sequence of keys>, val |-> <function>]; a dict   *)
(* whose order is never read is a function; an optional key is a key that  *)
(* may be missing from the function's DOMAIN.  An exception is a string    *)
(* naming its class (and message), "none" when nothing was raised.         *)
(***************************************************************************)
EXTENDS Integers, Sequences, FiniteSets, TLC

VARIABLES
    pc,          \* "new": before IBISModel(...), "ready": constructed, "failed": the constructor raised
    model_dict,  \* the mapping parse_ibis_file returns (self._model_dict once constructed)
    err_str,     \* the parser's diagnostics text
    is_tx,       \* constructor argument (self._is_tx)
    os_type,     \* platform.system() of the host
    os_bits,     \* platform.architecture()[0] of the host
    raised,      \* the exception the constructor raised, "none" otherwise
    comp,        \* trait comp: name of the selected component
    pins,        \* trait pins: list of valid pin names
    pin,         \* trait pin: selected pin name
    models,      \* trait models: list of valid model names
    mod,         \* trait mod: selected model name
    pin_cache,   \* cached value of property pin_ : [valid, val]
    dll_file,    \* self._dll_file (Unset while the attribute does not exist)
    ami_file,    \* self._ami_file
    last,        \* history: [op, exc] the last selection operation and the exception its handlers raised
    ret,         \* history: the last direct call of get_pins / get_models and what it returned
    subDict,     \* the [Model] sub-keyword dictionary handed to Model(subDict)
    mobj,        \* the Model object under construction / constructed
    mraised,     \* the exception Model(subDict) raised, "none" otherwise
    mpc,         \* "new", "built", "failed", "resolved" : life of the Model object of mobj
    param,       \* the parameter tree handed to make_gui_items (_param_dict["Model_Specific"])
    gui_items,   \* the GUI items make_gui_items returned
    new_traits,  \* the (name, trait) pairs make_gui_items returned
    gpc          \* "new", "built" : whether make_gui_items has run

vars == <<pc, model_dict, err_str, is_tx, os_type, os_bits, raised, comp, pins, pin,
          models, mod, pin_cache, dll_file, ami_file, last, ret,
          subDict, mobj, mraised, mpc, param, gui_items, new_traits, gpc>>

selVars == <<pc, model_dict, err_str, is_tx, raised, comp, pins, pin,
             models, mod, pin_cache, last, ret>>
\* (dll_file, ami_file, os_type and os_bits are shared by the object and by a model's resolution)
modVars == <<subDict, mobj, mraised, mpc>>
guiVars == <<param, gui_items, new_traits, gpc>>

-----------------------------------------------------------------------------
(* Bounds of the model. *)

\* Longest alternative list of a [Model Selector].
MaxAlts == 2
\* Most entries of an [Algorithmic Model] executable table.
MaxExecs == 2
\* Most file names on one Executable line (at least the two IBIS requires).
MaxFiles == 2
\* Most samples of one I-V table.
MaxSamples == 3

-----------------------------------------------------------------------------
(* Python helpers. *)

Range(s) == {s[i] : i \in DOMAIN s}

Has(d, k) == k \in DOMAIN d

\* str.lower() on the strings the model uses.
Lower(s) ==
    CASE s = "Output"  -> "output"
      [] s = "OUTPUT"  -> "output"
      [] s = "I/O"     -> "i/o"
      [] s = "Input"   -> "input"
      [] s = "Windows" -> "windows"
      [] s = "Linux"   -> "linux"
      [] s = "Darwin"  -> "darwin"
      [] OTHER         -> s

NoneVal == "None"
Unset == "<no attribute>"
NoExc == "none"


Abs(x) == IF x < 0 THEN -x ELSE x

MinOf(S) == CHOOSE x \in S : \A y \in S : x <= y

MaxOf(S) == CHOOSE x \in S : \A y \in S : y <= x

-----------------------------------------------------------------------------
(* ModelBase.__init__ and Model.__init__ (ibis_base.py, ibis_model.py).    *)
(* Voltages are in tenths of a volt, currents in mA, ramp rates in V/s;    *)
(* a quotient is kept exact as the pair <<numerator, denominator>>.        *)

\* "not self._mtype": None or the empty string.
MissingMtype(sd) == ~Has(sd, "model_type") \/ sd["model_type"] = ""

\* "not self._vrange": None or an empty tuple.
MissingVrange(sd) == ~Has(sd, "voltage_range") \/ sd["voltage_range"] = <<>>

\* "not self._ramp": None or an empty dict.
MissingRamp(sd) == ~Has(sd, "ramp") \/ DOMAIN sd["ramp"] = {}

\* Mutant of IsOutputType: the 'i/o' alternative is forgotten.
IsOutputType_output_only(mtype) == Lower(mtype) = "output"

\* mtype == 'output' or mtype == 'i/o', on the lower-cased model type.
IsOutputType(mtype) == Lower(mtype) = "output" \/ Lower(mtype) = "i/o"

\* is64(x): ((_, b), _) = x; int(b) == 64
is64(x) == x[1][2] = 64

\* isWin(x): ((os, _), _) = x; os.lower() == 'windows'
isWin(x) == Lower(x[1][1]) = "windows"

\* partition(p, xs): (the elements satisfying p, the others), both in the order of xs.
partition(p, xs) == <<SelectSeq(xs, LAMBDA x : p[x]), SelectSeq(xs, LAMBDA x : ~p[x])>>

\* getFiles(x): the file list of the first entry of x, [] when x is empty.
getFiles(x) == IF x # <<>> THEN x[1][2] ELSE <<>>

\* splitExecs(fs): (files of the first Windows entry, files of the first other entry)
splitExecs(fs) ==
    LET wl == partition([x \in Range(fs) |-> isWin(x)], fs)
    IN  <<getFiles(wl[1]), getFiles(wl[2])>>

\* The four executable lists ModelBase.__init__ leaves on the object.
ExecLists(sd) ==
    IF Has(sd, "algorithmic_model")
    THEN LET execs == sd["algorithmic_model"]
             p     == partition([x \in Range(execs) |-> is64(x)], execs)
             s32   == splitExecs(p[2])
             s64   == splitExecs(p[1])
         IN  [exec32Wins |-> s32[1], exec32Lins |-> s32[2],
              exec64Wins |-> s64[1], exec64Lins |-> s64[2]]
    ELSE [exec32Wins |-> <<>>, exec32Lins |-> <<>>,
          exec64Wins |-> <<>>, exec64Lins |-> <<>>]

\* The exception the [Ramp] handling of ModelBase.__init__ raises for an output model.
RampExc(sd) ==
    IF MissingRamp(sd) THEN "LookupError: Missing [Ramp]!"
    ELSE IF ~Has(sd["ramp"], "rising") THEN "KeyError: rising"
    ELSE IF sd["ramp"]["rising"] = <<>> THEN "IndexError"
    ELSE IF ~Has(sd["ramp"], "falling") THEN "KeyError: falling"
    ELSE IF sd["ramp"]["falling"] = <<>> THEN "IndexError"
    ELSE NoExc

\* The denominator 2e9 of the slew rate.
TwoE9 == 2000000000

\* Mutant of SlewOf: the rising rate stands in for the falling rate.
SlewOf_rising_twice(ramp) == <<ramp["rising"][1] + ramp["rising"][1], TwoE9>>

\* self._slew = (ramp['rising'][0] + ramp['falling'][0])/2e9
SlewOf(ramp) == <<ramp["rising"][1] + ramp["falling"][1], TwoE9>>

\* The exception ModelBase.__init__ raises on subDict, "none" when it returns.
ModelBaseExc(sd) ==
    IF MissingMtype(sd) THEN "LookupError: Missing Model_type!"
    ELSE IF MissingVrange(sd) THEN "LookupError: Missing [Voltage Range]!"
    ELSE IF IsOutputType(sd["model_type"])
         THEN IF ~Has(sd, "pulldown") \/ ~Has(sd, "pullup")
              THEN "LookupError: Missing I-V curves!"
              ELSE RampExc(sd)
         ELSE NoExc

\* self._vmeas as "if vmeas:" reads it: None (no vmeas keyword) and 0.0 are both falsy, written 0.
VmeasOf(sd) == IF Has(sd, "vmeas") THEN sd["vmeas"] ELSE 0

\* Mutant of Threshold2: without vmeas the whole maximum is taken, not its half.
Threshold2_full_max(vs, vmeas) == IF vmeas # 0 THEN 2 * vmeas ELSE 2 * MaxOf(Range(vs))

\* Twice the threshold of calcZ: vmeas when vmeas is truthy, max(vs)/2 of the
\* voltages handed to calcZ otherwise (doubled, to stay in the integers).
Threshold2(vs, vmeas) == IF vmeas # 0 THEN 2 * vmeas ELSE MaxOf(Range(vs))

\* np.where(np.array(vs) >= threshold)[0]: the indices at or above the threshold.
CrossSet(vs, vmeas) == {i \in DOMAIN vs : 2 * vs[i] >= Threshold2(vs, vmeas)}

\* calcZ(x) of proc_iv: [exc, z] for the voltages vs and one current trace ivals.
\* [0][0] of an empty np.where result is an IndexError; vs[ix-1] with ix = 0 is
\* Python's vs[-1], the last sample.
calcZ(vs, ivals, vmeas) ==
    LET hits == CrossSet(vs, vmeas)
    IN  IF hits = {} THEN [exc |-> "IndexError", z |-> <<>>]
        ELSE LET ix   == MinOf(hits)
                 prev == IF ix = 1 THEN Len(vs) ELSE ix - 1
                 dv   == vs[ix] - vs[prev]
                 di   == ivals[ix] - ivals[prev]
             IN  IF di = 0 THEN [exc |-> "ZeroDivisionError", z |-> <<>>]
                 ELSE [exc |-> NoExc, z |-> <<Abs(dv), Abs(di)>>]

\* list(zs) for zs = map(calcZ, zip([vs, vs, vs], [ityps, imins, imaxs])) of proc_iv(xs):
\* the three traces are evaluated in order and the first exception ends the list.
procIvZs(xs, vmeas) ==
    LET vs  == [i \in DOMAIN xs |-> xs[i][1]]
        tr(k) == [i \in DOMAIN xs |-> xs[i][2][k]]
        zs  == [k \in 1..3 |-> calcZ(vs, tr(k), vmeas)]
        bad == {k \in 1..3 : zs[k].exc # NoExc}
    IN  IF bad # {} THEN [exc |-> zs[MinOf(bad)].exc, zs |-> <<>>]
        ELSE [exc |-> NoExc, zs |-> [k \in 1..3 |-> zs[k].z]]

\* self._zout = (list(pd_zs)[0] + list(pu_zs)[0])/2, as an exact quotient.
ZoutOf(pdz, puz) == <<pdz[1] * puz[2] + puz[1] * pdz[2], 2 * pdz[2] * puz[2]>>

\* The I-V part of Model.__init__ for an output model: [exc, zout].
ModelIvPart(sd) ==
    IF Len(sd["pulldown"]) < 2 \/ Len(sd["pullup"]) < 2
    THEN [exc |-> "ValueError: Insufficient number of I-V data points!", zout |-> <<>>]
    ELSE LET pd == procIvZs(sd["pulldown"], VmeasOf(sd))
             pu == procIvZs(sd["pullup"], VmeasOf(sd))
         IN  IF pd.exc # NoExc THEN [exc |-> pd.exc, zout |-> <<>>]
             ELSE IF pu.exc # NoExc THEN [exc |-> pu.exc, zout |-> <<>>]
             ELSE [exc |-> NoExc, zout |-> ZoutOf(pd.zs[1], pu.zs[1])]

\* The object before __init__ has set anything.
NoModel ==
    [subDict |-> <<>>, mtype |-> NoneVal, slew |-> <<>>, zout |-> <<>>,
     exec32Wins |-> <<>>, exec32Lins |-> <<>>, exec64Wins |-> <<>>, exec64Lins |-> <<>>]

\* Model(subDict): [exc, obj]; obj is the constructed object when exc = "none".
ModelInit(sd) ==
    LET bexc == ModelBaseExc(sd)
    IN  IF bexc # NoExc THEN [exc |-> bexc, obj |-> NoModel]
        ELSE LET out == IsOutputType(sd["model_type"])
                 iv  == IF out THEN ModelIvPart(sd) ELSE [exc |-> NoExc, zout |-> <<>>]
                 ex  == ExecLists(sd)
             IN  IF iv.exc # NoExc THEN [exc |-> iv.exc, obj |-> NoModel]
                 ELSE [exc |-> NoExc,
                       obj |-> [subDict |-> sd,
                                mtype   |-> sd["model_type"],
                                slew    |-> IF out THEN SlewOf(sd["ramp"]) ELSE <<>>,
                                zout    |-> iv.zout,
                                exec32Wins |-> ex.exec32Wins, exec32Lins |-> ex.exec32Lins,
                                exec64Wins |-> ex.exec64Wins, exec64Lins |-> ex.exec64Lins]]

-----------------------------------------------------------------------------
(* IBISModel._mod_changed (ibis_file.py): the executable pair for the host. *)

\* fnames: the list chosen by the host's OS and bit width.
HostFnames(model, ostype, osbits) ==
    IF Lower(ostype) = "windows"
    THEN IF osbits = "64bit" THEN model.exec64Wins ELSE model.exec32Wins
    ELSE IF osbits = "64bit" THEN model.exec64Lins ELSE model.exec32Lins

\* Mutant of ModChangedFiles: the two file names are taken in the wrong order.
ModChangedFiles_swapped(model, ostype, osbits) ==
    LET fnames == HostFnames(model, ostype, osbits)
    IN  IF fnames = <<>> THEN [exc |-> NoExc, dll |-> "", ami |-> ""]
        ELSE IF Len(fnames) < 2 THEN [exc |-> "IndexError", dll |-> "", ami |-> ""]
        ELSE [exc |-> NoExc, dll |-> fnames[2], ami |-> fnames[1]]

\* [exc, dll, ami]: what _mod_changed assigns to _dll_file and _ami_file, or the
\* IndexError of fnames[1] on a one-element list (nothing is assigned then).
ModChangedFiles(model, ostype, osbits) ==
    LET fnames == HostFnames(model, ostype, osbits)
    IN  IF fnames = <<>> THEN [exc |-> NoExc, dll |-> "", ami |-> ""]
        ELSE IF Len(fnames) < 2 THEN [exc |-> "IndexError", dll |-> "", ami |-> ""]
        ELSE [exc |-> NoExc, dll |-> fnames[1], ami |-> fnames[2]]

-----------------------------------------------------------------------------
(* IBISModelBase.get_models and get_pins (ibis_base.py). *)

\* Mutant of get_models: only the first alternative of a selector is returned.
get_models_first_only(md, mname) ==
    IF Has(md, "model_selectors") /\ mname \in DOMAIN md["model_selectors"]
    THEN <<md["model_selectors"][mname][1][1]>>
    ELSE <<mname>>

\* get_models(mname): the model names of selector mname, [mname] when it is no selector.
get_models(md, mname) ==
    IF Has(md, "model_selectors") /\ mname \in DOMAIN md["model_selectors"]
    THEN LET sel == md["model_selectors"][mname]
         IN  [i \in DOMAIN sel |-> sel[i][1]]
    ELSE <<mname>>

\* Mutant of pin_ok: for a receiver only 'output' is excluded, so an I/O pin passes both ways.
pin_ok_rx_loose(md, cpins, tx, pname) ==
    LET mname == cpins.val[pname][1]
        mods  == get_models(md, mname)
    IN  IF mods = <<>> THEN [exc |-> "IndexError", ok |-> FALSE]
        ELSE IF mods[1] \notin DOMAIN md["models"] THEN [exc |-> "KeyError", ok |-> FALSE]
        ELSE LET mod_type == Lower(md["models"][mods[1]].mtype)
                 tx_ok    == (mod_type = "output") \/ (mod_type = "i/o")
             IN  [exc |-> NoExc, ok |-> IF tx THEN tx_ok ELSE mod_type # "output"]

\* Mutant of pin_ok: the last alternative of a selector decides, not the first.
pin_ok_last_alt(md, cpins, tx, pname) ==
    LET mname == cpins.val[pname][1]
        mods  == get_models(md, mname)
    IN  IF mods = <<>> THEN [exc |-> "IndexError", ok |-> FALSE]
        ELSE IF mods[Len(mods)] \notin DOMAIN md["models"] THEN [exc |-> "KeyError", ok |-> FALSE]
        ELSE LET mod_type == Lower(md["models"][mods[Len(mods)]].mtype)
                 tx_ok    == (mod_type = "output") \/ (mod_type = "i/o")
             IN  [exc |-> NoExc, ok |-> IF tx THEN tx_ok ELSE ~tx_ok]

\* pin_ok(pname) of get_pins: [exc, ok].  mods[0] raises IndexError on an empty
\* selector and self._models[...] raises KeyError on a name that is no model.
pin_ok(md, cpins, tx, pname) ==
    LET mname == cpins.val[pname][1]
        mods  == get_models(md, mname)
    IN  IF mods = <<>> THEN [exc |-> "IndexError", ok |-> FALSE]
        ELSE IF mods[1] \notin DOMAIN md["models"] THEN [exc |-> "KeyError", ok |-> FALSE]
        ELSE LET mod_type == Lower(md["models"][mods[1]].mtype)
                 tx_ok    == (mod_type = "output") \/ (mod_type = "i/o")
             IN  [exc |-> NoExc, ok |-> IF tx THEN tx_ok ELSE ~tx_ok]

\* get_pins() for the component object comp_ and direction flag tx: [exc, val].
\* filter() calls pin_ok in the order of list(pins); the first exception ends it.
get_pins(md, comp_, tx) ==
    LET cpins == comp_.pins
        bad   == {i \in DOMAIN cpins.keys : pin_ok(md, cpins, tx, cpins.keys[i]).exc # NoExc}
    IN  IF bad # {}
        THEN [exc |-> pin_ok(md, cpins, tx, cpins.keys[MinOf(bad)]).exc, val |-> <<>>]
        ELSE [exc |-> NoExc,
              val |-> SelectSeq(cpins.keys, LAMBDA p : pin_ok(md, cpins, tx, p).ok)]

-----------------------------------------------------------------------------
(* IBISModel (ibis_file.py): the traits comp, pins, pin, models, mod and   *)
(* their change handlers.  The mutable part of the object is the record    *)
(*   [pins, pin, models, mod, pin_cache, dll, ami, exc]                    *)
(* where exc is the last exception a change handler raised.  Traits calls  *)
(* _<name>_changed only when an assignment changes the trait's value, and  *)
(* catches and logs an exception a handler raises: the handler stops where *)
(* it raised and the assignment that triggered it returns normally.        *)

NoEntry == <<"", <<>>>>

\* The Component object selected by trait comp (self.comp_).
CompObj(md, c) == md["components"].val[c]

\* Mutant of mod_changed: the handler also narrows the valid model list to the chosen model.
mod_changed_narrows_models(md, ostype, osbits, S, new_value) ==
    IF new_value \notin DOMAIN md["models"] THEN [S EXCEPT !.exc = "KeyError"]
    ELSE LET f == ModChangedFiles(md["models"][new_value], ostype, osbits)
         IN  IF f.exc # NoExc THEN [S EXCEPT !.exc = f.exc]
             ELSE [S EXCEPT !.dll = f.dll, !.ami = f.ami, !.models = <<new_value>>]

\* _mod_changed(new_value)
mod_changed(md, ostype, osbits, S, new_value) ==
    IF new_value \notin DOMAIN md["models"] THEN [S EXCEPT !.exc = "KeyError"]
    ELSE LET f == ModChangedFiles(md["models"][new_value], ostype, osbits)
         IN  IF f.exc # NoExc THEN [S EXCEPT !.exc = f.exc]
             ELSE [S EXCEPT !.dll = f.dll, !.ami = f.ami]

\* self.mod = v, for v in self.models: nothing happens when v is the current value.
assign_mod(md, ostype, osbits, S, v) ==
    IF v = S.mod THEN S
    ELSE mod_changed(md, ostype, osbits, [S EXCEPT !.mod = v], v)

\* Mutant of pin_changed: the model list is recomputed but the model is not reset.
pin_changed_keeps_mod(md, ostype, osbits, c, S, new_value) ==
    LET cpins == CompObj(md, c).pins
    IN  IF new_value \notin DOMAIN cpins.val THEN [S EXCEPT !.exc = "KeyError"]
        ELSE [S EXCEPT !.models = get_models(md, cpins.val[new_value][1])]

\* _pin_changed(new_value), with comp the selected component's name.
pin_changed(md, ostype, osbits, c, S, new_value) ==
    LET cpins == CompObj(md, c).pins
    IN  IF new_value \notin DOMAIN cpins.val THEN [S EXCEPT !.exc = "KeyError"]
        ELSE LET ms == get_models(md, cpins.val[new_value][1])
                 S1 == [S EXCEPT !.models = ms]
             IN  IF ms = <<>> THEN [S1 EXCEPT !.exc = "IndexError"]
                 ELSE assign_mod(md, ostype, osbits, S1, ms[1])

\* self.pin = v, for v in self.pins: nothing happens when v is the current value;
\* a change marks the cached property pin_ dirty and calls _pin_changed.
assign_pin(md, ostype, osbits, c, S, v) ==
    IF v = S.pin THEN S
    ELSE pin_changed(md, ostype, osbits, c,
                     [S EXCEPT !.pin = v, !.pin_cache = [valid |-> FALSE, val |-> NoEntry]], v)

\* _comp_changed(new_value), with c the name trait comp now holds.
comp_changed(md, ostype, osbits, tx, c, S) ==
    LET gp == get_pins(md, CompObj(md, c), tx)
    IN  IF gp.exc # NoExc THEN [S EXCEPT !.exc = gp.exc]
        ELSE LET S1 == [S EXCEPT !.pins = gp.val]
             IN  IF gp.val = <<>> THEN [S1 EXCEPT !.exc = "IndexError"]
                 ELSE assign_pin(md, ostype, osbits, c, S1, gp.val[1])

\* The mutable part of the object, read from and written to the variables.
Sel == [pins |-> pins, pin |-> pin, models |-> models, mod |-> mod,
        pin_cache |-> pin_cache, dll |-> dll_file, ami |-> ami_file, exc |-> NoExc]

Store(S) ==
    /\ pins' = S.pins
    /\ pin' = S.pin
    /\ models' = S.models
    /\ mod' = S.mod
    /\ pin_cache' = S.pin_cache
    /\ dll_file' = S.dll
    /\ ami_file' = S.ami

NoRaise == [type |-> NoExc, section |-> "", msgs |-> ""]

\* Mutant of BaseInitExc: the message does not carry the parser's diagnostics.
BaseInitExc_no_msgs(md, errs) ==
    IF ~Has(md, "components") \/ md["components"].keys = <<>>
    THEN [type |-> "ValueError", section |-> "components", msgs |-> ""]
    ELSE IF ~Has(md, "models") \/ DOMAIN md["models"] = {}
    THEN [type |-> "ValueError", section |-> "models", msgs |-> ""]
    ELSE NoRaise

\* IBISModelBase.__init__: the exception of the two section checks.
BaseInitExc(md, errs) ==
    IF ~Has(md, "components") \/ md["components"].keys = <<>>
    THEN [type |-> "ValueError", section |-> "components", msgs |-> errs]
    ELSE IF ~Has(md, "models") \/ DOMAIN md["models"] = {}
    THEN [type |-> "ValueError", section |-> "models", msgs |-> errs]
    ELSE NoRaise

\* IBISModel.__init__ after the base class returned: [exc, S].  The traits get
\* their defaults (no handler runs for a default), pin_ is read once, and the
\* two handlers are called by hand, where an exception is the constructor's.
\* pin and mod are Enum(default, values="<list>") traits: such a trait keeps its
\* value in a cache that is empty ("" here) until the trait is first read or
\* assigned, and an assignment notifies when the value differs from the cache.
\* The read of pin_ reads pin, so pin holds its default when _comp_changed
\* assigns it; mod is not read, so the assignment in _pin_changed is its first
\* and _mod_changed runs (an exception it raises is caught and logged).
IBISModelInit(md, ostype, osbits, tx) ==
    LET c0 == md["components"].keys[1]
        gp == get_pins(md, CompObj(md, c0), tx)
        S0 == [pins |-> <<>>, pin |-> "", models |-> <<>>, mod |-> "",
               pin_cache |-> [valid |-> FALSE, val |-> NoEntry],
               dll |-> Unset, ami |-> Unset, exc |-> NoExc]
    IN  IF gp.exc # NoExc THEN [exc |-> gp.exc, S |-> S0]
        ELSE IF gp.val = <<>> THEN [exc |-> "IndexError", S |-> S0]
        ELSE LET p0    == gp.val[1]
                 entry == CompObj(md, c0).pins.val[p0]
                 ms    == get_models(md, entry[1])
             IN  IF ms = <<>> THEN [exc |-> "IndexError", S |-> S0]
                 ELSE LET S1 == [S0 EXCEPT !.pins = gp.val, !.pin = p0,
                                           !.pin_cache = [valid |-> TRUE, val |-> entry],
                                           !.models = ms]
                          \* self._comp_changed(list(components)[0])
                          S2 == comp_changed(md, ostype, osbits, tx, c0, S1)
                          \* self._pin_changed(self.pins[0])
                          S3 == pin_changed(md, ostype, osbits, c0, S2, S2.pins[1])
                      IN  IF S2.exc # NoExc THEN [exc |-> S2.exc, S |-> S0]
                          ELSE [exc |-> NoExc, S |-> S3]

-----------------------------------------------------------------------------
(* make_gui_items (ami_parse.py).  A node of the parameter tree is an      *)
(* AMIParameter, [isParam |-> TRUE, pusage, ptype, pformat, pvalue, pmin,  *)
(* pmax, pdefault, plist_tip, pdescription], or a dict of sub-parameters,  *)
(* [isParam |-> FALSE, dict |-> name -> node], whose key "description"     *)
(* holds a string.  None is <<>> and a present pmin, pmax or pdefault v is *)
(* <<v>>.  GUI objects are records with cls "Item" or "Group", traits are  *)
(* records with cls "Bool", "Range", "Trait", "Enum" or "Value".           *)

\* The code points of the dict keys the trees use (ord of each character).
CodePoints(name) ==
    CASE name = "Zeta"        -> <<90, 101, 116, 97>>
      [] name = "alpha"       -> <<97, 108, 112, 104, 97>>
      [] name = "description" -> <<100, 101, 115, 99, 114, 105, 112, 116, 105, 111, 110>>
      [] name = "gain"        -> <<103, 97, 105, 110>>

\* a < b for two sequences of code points, as Python compares two str.
RECURSIVE SeqLess(_, _)
SeqLess(a, b) ==
    IF b = <<>> THEN FALSE
    ELSE IF a = <<>> THEN TRUE
    ELSE IF Head(a) # Head(b) THEN Head(a) < Head(b)
    ELSE SeqLess(Tail(a), Tail(b))

\* Mutant of StrLess: the names are compared with their case folded.
StrLess_casefold(a, b) ==
    LET fold(cs) == [i \in DOMAIN cs |-> IF cs[i] >= 65 /\ cs[i] <= 90 THEN cs[i] + 32 ELSE cs[i]]
    IN  SeqLess(fold(CodePoints(a)), fold(CodePoints(b)))

\* a < b for two str.
StrLess(a, b) == SeqLess(CodePoints(a), CodePoints(b))

\* subparam_names = list(param.keys()); subparam_names.sort()
RECURSIVE SortNames(_)
SortNames(S) ==
    IF S = {} THEN <<>>
    ELSE LET m == CHOOSE x \in S : \A y \in S \ {x} : StrLess(x, y)
         IN  <<m>> \o SortNames(S \ {m})

\* Item(pname, tooltip=...), Item(pname, style="readonly", tooltip=...), Item(label=...)
Item(name, style, tooltip) ==
    [cls |-> "Item", name |-> name, label |-> "", style |-> style, tooltip |-> tooltip]
LabelItem(text) ==
    [cls |-> "Item", name |-> "", label |-> text, style |-> "simple", tooltip |-> ""]

\* Group(content, label=..., show_border=..., orientation=...); a Group is vertical by default.
Group(content, label, border, orientation) ==
    [cls |-> "Group", content |-> content, label |-> label, show_border |-> border,
     orientation |-> orientation]

\* "if default:" on pdefault: None and 0 are falsy.
Truthy(default) == default # <<>> /\ default[1] # 0

\* tmp_dict = {}; tmp_dict.update(list(zip(list_tips, param.pvalue))): the tags in
\* the order of their first occurrence, each with the value of its last one.
TipDict(tips, pvalue) ==
    LET n    == MinOf({Len(tips), Len(pvalue)})
        idx  == SelectSeq([i \in 1..n |-> i], LAMBDA i : \A j \in 1..(i - 1) : tips[j] # tips[i])
        keys == [k \in DOMAIN idx |-> tips[idx[k]]]
    IN  [keys |-> keys,
         val  |-> [t \in Range(keys) |-> pvalue[MaxOf({i \in 1..n : tips[i] = t})]]]

\* The List branch with list_tips: Trait(val, tmp_dict), val the first key or the
\* first key whose value equals a truthy default.
ListTipTrait(p) ==
    LET tmp_dict == TipDict(p.plist_tip, p.pvalue)
        hits     == IF Truthy(p.pdefault)
                    THEN {k \in DOMAIN tmp_dict.keys :
                             tmp_dict.val[tmp_dict.keys[k]] = p.pdefault[1]}
                    ELSE {}
        val      == IF hits # {} THEN tmp_dict.keys[MinOf(hits)] ELSE tmp_dict.keys[1]
    IN  [cls |-> "Trait", default |-> val, map |-> tmp_dict]

\* The List branch without list_tips: Enum([val] + param.pvalue), val the first
\* value or a truthy default; the first element of the list is the Enum's default.
ListEnumTrait(p) ==
    LET val == IF Truthy(p.pdefault) THEN p.pdefault[1] ELSE p.pvalue[1]
    IN  [cls |-> "Enum", default |-> val, values |-> <<val>> \o p.pvalue]

\* Mutant of LeafTrait: the format is looked at before the type.
LeafTrait_format_first(p) ==
    IF p.pformat = "Range"
    THEN [cls |-> "Range", low |-> p.pmin, high |-> p.pmax, default |-> p.pvalue]
    ELSE IF p.pformat = "List"
    THEN IF p.plist_tip # <<>> THEN ListTipTrait(p) ELSE ListEnumTrait(p)
    ELSE IF p.ptype = "Boolean"
    THEN [cls |-> "Bool", default |-> p.pvalue]
    ELSE [cls |-> "Value", default |-> p.pvalue]

\* The trait of an In or InOut parameter: Bool(pvalue), Range(pmin, pmax, pvalue),
\* Trait(val, tmp_dict), Enum([val] + pvalue) or the bare pvalue.
LeafTrait(p) ==
    IF p.ptype = "Boolean"
    THEN [cls |-> "Bool", default |-> p.pvalue]
    ELSE IF p.pformat = "Range"
    THEN [cls |-> "Range", low |-> p.pmin, high |-> p.pmax, default |-> p.pvalue]
    ELSE IF p.pformat = "List"
    THEN IF p.plist_tip # <<>> THEN ListTipTrait(p) ELSE ListEnumTrait(p)
    ELSE [cls |-> "Value", default |-> p.pvalue]

\* The Item of an In or InOut parameter: read-only for a Value that is not a Boolean.
LeafItem(pname, p) ==
    Item(pname,
         IF p.ptype # "Boolean" /\ p.pformat \notin {"Range", "List"} THEN "readonly" ELSE "simple",
         p.pdescription)

\* Mutant of UsageShown: an Info parameter is shown too.
UsageShown_with_info(pusage) == pusage \in {"In", "InOut", "Info"}

\* pusage in ("In", "InOut")
UsageShown(pusage) == pusage \in {"In", "InOut"}

\* sub_items = [Group(top_lvl_params)] + sub_params: the Items in one Group, then the Groups.
Ungroup(sub_items) ==
    <<Group(SelectSeq(sub_items, LAMBDA it : it.cls = "Item"), "", FALSE, "vertical")>>
    \o SelectSeq(sub_items, LAMBDA it : it.cls # "Item")

\* make_gui_items(pname, param, first_call): [gui_items, new_traits].  SubItems is
\* the loop over the sorted names: [sub_items, new_traits, group_desc].
RECURSIVE make_gui_items(_, _, _)
RECURSIVE SubItems(_, _)
SubItems(p, names) ==
    IF names = <<>> THEN [sub_items |-> <<>>, new_traits |-> <<>>, group_desc |-> ""]
    ELSE LET n    == names[Len(names)]
             rest == SubItems(p, SubSeq(names, 1, Len(names) - 1))
         IN  IF n = "description" THEN [rest EXCEPT !.group_desc = p.dict[n]]
             ELSE LET r == make_gui_items(n, p.dict[n], FALSE)
                  IN  [rest EXCEPT !.sub_items = @ \o r.gui_items,
                                   !.new_traits = @ \o r.new_traits]

make_gui_items(pname, p, first_call) ==
    IF p.isParam
    THEN IF UsageShown(p.pusage)
         THEN [gui_items |-> <<LeafItem(pname, p)>>, new_traits |-> <<<<pname, LeafTrait(p)>>>>]
         ELSE [gui_items |-> <<>>, new_traits |-> <<>>]
    ELSE LET sub == SubItems(p, SortNames(DOMAIN p.dict))
         IN  [gui_items |->
                <<Group(<<LabelItem(sub.group_desc)>> \o Ungroup(sub.sub_items), pname, TRUE,
                        IF first_call THEN "horizontal" ELSE "vertical")>>,
              new_traits |-> sub.new_traits]

-----------------------------------------------------------------------------
(* The parsed files the model draws its inputs from. *)

CompNames == <<"c1", "c2">>
PinNames == <<"p1", "p2">>
ModelNames == {"m1", "m2"}
SelName == "s1"
ModelTypes == {"Input", "Output", "I/O"}
ParserMsgs == {"", "Warning: line 3"}
HostOS == {"Windows", "Linux", "Darwin"}
HostBits == {"64bit", "32bit"}

\* The key lists of a [Pin] table: the non-empty sub-lists of PinNames.
KeySeqs ==
    {SelectSeq(PinNames, LAMBDA p : p \in K) : K \in (SUBSET Range(PinNames)) \ {{}}}

\* A Component object: pin name -> (model or selector name, RLC entry); the
\* RLC entry of a pin is named after the component and pin it belongs to.
Component(cname, ks, b) ==
    [pins |-> [keys |-> ks, val |-> [p \in Range(ks) |-> <<b[p], <<cname, p>>>>]]]

\* The alternative lists of a [Model Selector]: (model name, description) pairs.
AltLists ==
    UNION {[1..n -> {<<m, "desc">> : m \in ModelNames}] : n \in 1..MaxAlts}

\* An I-V table and a ramp that Model() accepts.
GoodCurve == <<<<5, <<10, 9, 11>>>>, <<7, <<14, 12, 16>>>>>>
GoodRamp == [rising |-> <<1, 1, 1>>, falling |-> <<1, 1, 1>>]
GoodVrange == <<33, 30, 36>>

ExecFiles(m) == IF m = "m1" THEN <<"m1.so", "m1.ami">> ELSE <<"m2.so", "m2.ami">>

\* The sub-dictionary of a model of type t named m, with one 64-bit Linux executable pair.
GoodSubDict(m, t) ==
    [model_type |-> t, voltage_range |-> GoodVrange,
     algorithmic_model |-> <<<< <<"Linux", 64>>, ExecFiles(m) >>>>]
    @@ (IF IsOutputType(t)
        THEN [ramp |-> GoodRamp, pulldown |-> GoodCurve, pullup |-> GoodCurve]
        ELSE <<>>)

\* model_dict['models'] for the model types ty: the Model objects the parser built.
ModelsDict(ty) == [m \in ModelNames |-> ModelInit(GoodSubDict(m, ty[m])).obj]

\* model_dict from its sections; copt, mopt and sopt are <<>> (key absent) or <<section>>.
MkDict(copt, mopt, sopt) ==
    (IF copt = <<>> THEN <<>> ELSE [components |-> copt[1]])
    @@ (IF mopt = <<>> THEN <<>> ELSE [models |-> mopt[1]])
    @@ (IF sopt = <<>> THEN <<>> ELSE [model_selectors |-> (SelName :> sopt[1])])

\* The names a pin may reference so that it resolves: the models, and the selector when there is one.
BindNames(sopt) == ModelNames \cup (IF sopt = <<>> THEN {} ELSE {SelName})

SelOpts == {<<>>} \cup {<<a>> : a \in AltLists}

NoRet == [fn |-> "none", arg |-> "", exc |-> NoExc, val |-> <<>>]
NoLast == [op |-> "none", exc |-> NoExc]

\* Before IBISModel(...) no attribute exists.
NoObject ==
    /\ pc = "new"
    /\ raised = NoRaise
    /\ comp = ""
    /\ pins = <<>>
    /\ pin = ""
    /\ models = <<>>
    /\ mod = ""
    /\ pin_cache = [valid |-> FALSE, val |-> NoEntry]
    /\ dll_file = Unset
    /\ ami_file = Unset
    /\ last = NoLast
    /\ ret = NoRet

\* make_gui_items is not called.
NoGuiRun ==
    /\ param = <<>>
    /\ gui_items = <<>>
    /\ new_traits = <<>>
    /\ gpc = "unused"

NoModelRun ==
    /\ subDict = <<>>
    /\ mobj = NoModel
    /\ mraised = NoExc
    /\ mpc = "unused"

-----------------------------------------------------------------------------
(* Spec: one IBISModel object over a file with two components. *)

SelTypes == {"Input", "Output"}
\* platform.system() and platform.architecture()[0] of the hosts the object is built on.
SelHosts == {<<"Linux", "64bit">>, <<"Windows", "64bit">>, <<"Darwin", "64bit">>}

Init ==
    /\ NoObject
    /\ NoModelRun
    /\ NoGuiRun
    /\ err_str = ""
    /\ is_tx \in BOOLEAN
    /\ \E h \in SelHosts : os_type = h[1] /\ os_bits = h[2]
    /\ \E ty \in [ModelNames -> SelTypes], sopt \in SelOpts :
         \E ks1 \in KeySeqs, ks2 \in KeySeqs :
           \E b1 \in [Range(ks1) -> BindNames(sopt)], b2 \in [Range(ks2) -> BindNames(sopt)] :
             model_dict =
               MkDict(<<[keys |-> CompNames,
                         val  |-> (CompNames[1] :> Component(CompNames[1], ks1, b1))
                                  @@ (CompNames[2] :> Component(CompNames[2], ks2, b2))]>>,
                      <<ModelsDict(ty)>>, sopt)

\* IBISModel(ibis_file_name, is_tx)
Construct ==
    /\ pc = "new"
    /\ LET bexc == BaseInitExc(model_dict, err_str)
       IN  IF bexc.type # NoExc
           THEN /\ pc' = "failed"
                /\ raised' = bexc
                /\ UNCHANGED <<comp, pins, pin, models, mod, pin_cache, dll_file, ami_file>>
           ELSE LET r == IBISModelInit(model_dict, os_type, os_bits, is_tx)
                IN  IF r.exc # NoExc
                    THEN /\ pc' = "failed"
                         /\ raised' = [type |-> r.exc, section |-> "", msgs |-> ""]
                         /\ UNCHANGED <<comp, pins, pin, models, mod, pin_cache,
                                        dll_file, ami_file>>
                    ELSE /\ pc' = "ready"
                         /\ raised' = NoRaise
                         /\ comp' = model_dict["components"].keys[1]
                         /\ Store(r.S)
    /\ last' = [op |-> "init", exc |-> NoExc]
    /\ UNCHANGED <<model_dict, err_str, is_tx, os_type, os_bits, ret>>
    /\ UNCHANGED modVars
    /\ UNCHANGED guiVars

\* self.comp = c, for another component c of the file.
SetComp(c) ==
    /\ pc = "ready"
    /\ c # comp
    /\ comp' = c
    /\ LET S == comp_changed(model_dict, os_type, os_bits, is_tx, c, Sel)
       IN  Store(S) /\ last' = [op |-> "comp", exc |-> S.exc]
    /\ UNCHANGED <<pc, raised, model_dict, err_str, is_tx, os_type, os_bits, ret>>
    /\ UNCHANGED modVars
    /\ UNCHANGED guiVars

\* self.pin = p, for another pin p of the valid pin list.
SetPin(p) ==
    /\ pc = "ready"
    /\ p # pin
    /\ LET S == assign_pin(model_dict, os_type, os_bits, comp, Sel, p)
       IN  Store(S) /\ last' = [op |-> "pin", exc |-> S.exc]
    /\ UNCHANGED <<pc, raised, comp, model_dict, err_str, is_tx, os_type, os_bits, ret>>
    /\ UNCHANGED modVars
    /\ UNCHANGED guiVars

\* self.mod = m, for another model m of the valid model list.
SetMod(m) ==
    /\ pc = "ready"
    /\ m # mod
    /\ LET S == assign_mod(model_dict, os_type, os_bits, Sel, m)
       IN  Store(S) /\ last' = [op |-> "mod", exc |-> S.exc]
    /\ UNCHANGED <<pc, raised, comp, model_dict, err_str, is_tx, os_type, os_bits, ret>>
    /\ UNCHANGED modVars
    /\ UNCHANGED guiVars

\* A read of the cached property pin_ while it is dirty: _get_pin_ runs and its value is kept.
ReadPin ==
    /\ pc = "ready"
    /\ ~pin_cache.valid
    /\ pin \in DOMAIN CompObj(model_dict, comp).pins.val
    /\ pin_cache' = [valid |-> TRUE, val |-> CompObj(model_dict, comp).pins.val[pin]]
    /\ UNCHANGED <<pc, raised, comp, pins, pin, models, mod, dll_file, ami_file, last,
                   model_dict, err_str, is_tx, os_type, os_bits, ret>>
    /\ UNCHANGED modVars
    /\ UNCHANGED guiVars

Next ==
    \/ Construct
    \/ \E c \in Range(model_dict["components"].keys) : SetComp(c)
    \/ \E p \in Range(pins) : SetPin(p)
    \/ \E m \in Range(models) : SetMod(m)
    \/ ReadPin

Spec == Init /\ [][Next]_vars

-----------------------------------------------------------------------------
(* SpecRaw: the same object over files as the parser hands them over, in   *)
(* which a pin or a selector alternative may name a model the file does    *)
(* not define.                                                             *)

\* A name no [Model] and no [Model Selector] of the file carries.
UnknownName == "mx"

\* The alternative lists of a [Model Selector] over defined and undefined model names.
RawAltLists ==
    UNION {[1..n -> {<<m, "desc">> : m \in ModelNames \cup {UnknownName}}] : n \in 1..MaxAlts}

RawSelOpts == {<<>>} \cup {<<a>> : a \in RawAltLists}

\* The names the [Pin] table of a component may carry.
RawBindNames == ModelNames \cup {SelName, UnknownName}

InitRaw ==
    /\ NoObject
    /\ NoModelRun
    /\ NoGuiRun
    /\ err_str = ""
    /\ is_tx \in BOOLEAN
    /\ os_type = "Linux"
    /\ os_bits = "64bit"
    /\ \E ty \in [ModelNames -> SelTypes], sopt \in RawSelOpts :
         \E ks1 \in KeySeqs, ks2 \in KeySeqs :
           \E b1 \in [Range(ks1) -> RawBindNames], b2 \in [Range(ks2) -> RawBindNames] :
             model_dict =
               MkDict(<<[keys |-> CompNames,
                         val  |-> (CompNames[1] :> Component(CompNames[1], ks1, b1))
                                  @@ (CompNames[2] :> Component(CompNames[2], ks2, b2))]>>,
                      <<ModelsDict(ty)>>, sopt)

NextRaw ==
    \/ Construct
    \/ \E c \in Range(model_dict["components"].keys) : SetComp(c)
    \/ \E p \in Range(pins) : SetPin(p)
    \/ \E m \in Range(models) : SetMod(m)
    \/ ReadPin

SpecRaw == InitRaw /\ [][NextRaw]_vars

-----------------------------------------------------------------------------
(* SpecBase: IBISModelBase over a file with one component, any of whose    *)
(* two required sections may be missing or empty; after construction       *)
(* get_pins and get_models are called directly.                            *)

EmptyComponents == [keys |-> <<>>, val |-> <<>>]

InitBase ==
    /\ NoObject
    /\ NoModelRun
    /\ NoGuiRun
    /\ err_str \in ParserMsgs
    /\ is_tx \in BOOLEAN
    /\ os_type = "Linux"
    /\ os_bits = "64bit"
    /\ \E ty \in [ModelNames -> ModelTypes], sopt \in SelOpts :
         \E ks \in KeySeqs :
           \E b \in [Range(ks) -> BindNames(sopt)] :
             \E copt \in {<<>>, <<EmptyComponents>>,
                          <<[keys |-> <<CompNames[1]>>,
                             val  |-> (CompNames[1] :> Component(CompNames[1], ks, b))]>>},
                mopt \in {<<>>, << <<>> >>, <<ModelsDict(ty)>>} :
               model_dict = MkDict(copt, mopt, sopt)

\* self.get_pins()
CallGetPins ==
    /\ pc = "ready"
    /\ LET gp == get_pins(model_dict, CompObj(model_dict, comp), is_tx)
       IN  ret' = [fn |-> "get_pins", arg |-> comp, exc |-> gp.exc, val |-> gp.val]
    /\ UNCHANGED <<pc, raised, comp, pins, pin, models, mod, pin_cache, dll_file, ami_file,
                   last, model_dict, err_str, is_tx, os_type, os_bits>>
    /\ UNCHANGED modVars
    /\ UNCHANGED guiVars

\* self.get_models(mname)
CallGetModels(mname) ==
    /\ pc = "ready"
    /\ ret' = [fn |-> "get_models", arg |-> mname, exc |-> NoExc,
               val |-> get_models(model_dict, mname)]
    /\ UNCHANGED <<pc, raised, comp, pins, pin, models, mod, pin_cache, dll_file, ami_file,
                   last, model_dict, err_str, is_tx, os_type, os_bits>>
    /\ UNCHANGED modVars
    /\ UNCHANGED guiVars

NextBase ==
    \/ Construct
    \/ CallGetPins
    \/ \E n \in ModelNames \cup {SelName} : CallGetModels(n)

SpecBase == InitBase /\ [][NextBase]_vars

-----------------------------------------------------------------------------
(* SpecModel: Model(subDict) over the sub-dictionaries of a [Model].       *)

\* The samples of an I-V table: (voltage in 0.1 V, (typ, min, max) current in mA).
Samples ==
    {<<1, <<2, 1, 3>>>>, <<3, <<8, 1, 9>>>>, <<5, <<10, 9, 11>>>>, <<7, <<14, 12, 16>>>>}

\* The tables of up to MaxSamples samples, voltages strictly increasing as IBIS tables are.
Curves ==
    {c \in UNION {[1..n -> Samples] : n \in 0..MaxSamples} :
        \A i \in DOMAIN c : i < Len(c) => c[i][1] < c[i + 1][1]}

\* [Vmeas] in 0.1 V; 0 stands for no keyword.
VmeasOpts == {0, 2, 6}

CurveOpts == {<<>>} \cup {<<c>> : c \in Curves}

\* [Ramp]: no keyword, an empty dict, dV/dt_r alone, or both rates.
RampOpts == {"absent", "empty", "rising", "both", "fast"}

RampOf(ropt) ==
    IF ropt = "empty" THEN <<>>
    ELSE IF ropt = "rising" THEN [rising |-> GoodRamp.rising]
    ELSE IF ropt = "fast" THEN [rising |-> <<2, 1, 3>>, falling |-> <<4, 3, 5>>]
    ELSE GoodRamp

MtypeOpts == {<<>>} \cup {<<t>> : t \in ModelTypes}

MkSubDict(topt, hasVr, ropt, vm, pdopt, puopt) ==
    (IF topt = <<>> THEN <<>> ELSE [model_type |-> topt[1]])
    @@ (IF hasVr THEN [voltage_range |-> GoodVrange] ELSE <<>>)
    @@ (IF ropt = "absent" THEN <<>> ELSE [ramp |-> RampOf(ropt)])
    @@ (IF vm = 0 THEN <<>> ELSE [vmeas |-> vm])
    @@ (IF pdopt = <<>> THEN <<>> ELSE [pulldown |-> pdopt[1]])
    @@ (IF puopt = <<>> THEN <<>> ELSE [pullup |-> puopt[1]])

NoSelection ==
    /\ NoObject
    /\ model_dict = <<>>
    /\ err_str = ""
    /\ is_tx = FALSE

InitModel ==
    /\ NoSelection
    /\ NoGuiRun
    /\ os_type = "Linux"
    /\ os_bits = "64bit"
    /\ mobj = NoModel
    /\ mraised = NoExc
    /\ mpc = "new"
    /\ \E topt \in MtypeOpts, hasVr \in BOOLEAN, ropt \in RampOpts, vm \in VmeasOpts,
          pdopt \in CurveOpts, puopt \in CurveOpts :
         subDict = MkSubDict(topt, hasVr, ropt, vm, pdopt, puopt)

\* Model(subDict)
BuildModel ==
    /\ mpc = "new"
    /\ LET r == ModelInit(subDict)
       IN  /\ mraised' = r.exc
           /\ mobj' = r.obj
           /\ mpc' = IF r.exc = NoExc THEN "built" ELSE "failed"
    /\ UNCHANGED <<subDict, os_type, os_bits, dll_file, ami_file>>
    /\ UNCHANGED selVars
    /\ UNCHANGED guiVars

NextModel == BuildModel

SpecModel == InitModel /\ [][NextModel]_vars

-----------------------------------------------------------------------------
(* SpecExec: a model with an [Algorithmic Model] table is built and then   *)
(* selected on some host (_mod_changed).                                   *)

TableOS == {"Windows", "Linux"}
TableBits == {32, 64}

\* The file names of an Executable line: the executable, its parameter file, and what may follow.
BaseFileLists == {<<"a.dll", "a.ami", "a.txt">>, <<"b.so", "b.ami", "b.txt">>}

FileLists == {SubSeq(f, 1, n) : f \in BaseFileLists, n \in 2..MaxFiles}

ExecEntries == {<< <<os, b>>, f >> : os \in TableOS, b \in TableBits, f \in FileLists}

ExecTables == UNION {[1..n -> ExecEntries] : n \in 0..MaxExecs}

InitExec ==
    /\ NoSelection
    /\ NoGuiRun
    /\ os_type \in HostOS
    /\ os_bits \in HostBits
    /\ mobj = NoModel
    /\ mraised = NoExc
    /\ mpc = "new"
    /\ \E aopt \in {<<>>} \cup {<<t>> : t \in ExecTables} :
         subDict = [model_type |-> "Input", voltage_range |-> GoodVrange]
                   @@ (IF aopt = <<>> THEN <<>> ELSE [algorithmic_model |-> aopt[1]])

\* _mod_changed(new_value) with self._models[new_value] the model just built.
ResolveExec ==
    /\ mpc = "built"
    /\ LET f == ModChangedFiles(mobj, os_type, os_bits)
       IN  /\ f.exc = NoExc
           /\ dll_file' = f.dll
           /\ ami_file' = f.ami
    /\ mpc' = "resolved"
    /\ UNCHANGED <<subDict, mobj, mraised, os_type, os_bits>>
    /\ UNCHANGED selVars
    /\ UNCHANGED guiVars

NextExec == BuildModel \/ ResolveExec

SpecExec == InitExec /\ [][NextExec]_vars

-----------------------------------------------------------------------------
(* SpecGui: make_gui_items over the Model_Specific trees of an AMI file.   *)

ParamUsages == {"In", "InOut", "Out", "Info"}

\* An AMIParameter as make_gui_items reads it.
Param(pusage, ptype, pformat, pvalue, pmin, pmax, pdefault, plist_tip) ==
    [isParam |-> TRUE, pusage |-> pusage, ptype |-> ptype, pformat |-> pformat,
     pvalue |-> pvalue, pmin |-> pmin, pmax |-> pmax, pdefault |-> pdefault,
     plist_tip |-> plist_tip, pdescription |-> "tip"]

ParamShapes == 1..12

\* The parameters of usage u: Booleans of two formats, a Range, Lists with and
\* without tags and with a default that is absent, listed, unlisted or 0, a Value.
ParamOf(u, k) ==
    CASE k = 1  -> Param(u, "Boolean", "Value", TRUE, <<>>, <<>>, <<>>, <<>>)
      [] k = 2  -> Param(u, "Boolean", "List", <<TRUE, FALSE>>, <<>>, <<>>, <<>>, <<>>)
      [] k = 3  -> Param(u, "Integer", "Range", 2, <<1>>, <<3>>, <<>>, <<>>)
      [] k = 4  -> Param(u, "Integer", "List", <<1, 2, 3>>, <<>>, <<>>, <<>>, <<>>)
      [] k = 5  -> Param(u, "Integer", "List", <<1, 2, 3>>, <<>>, <<>>, <<2>>, <<>>)
      [] k = 6  -> Param(u, "Integer", "List", <<1, 0, 2>>, <<>>, <<>>, <<0>>, <<>>)
      [] k = 7  -> Param(u, "Integer", "List", <<1, 2, 3>>, <<>>, <<>>, <<2>>, <<"a", "b", "c">>)
      [] k = 8  -> Param(u, "Integer", "List", <<1, 2, 3>>, <<>>, <<>>, <<5>>, <<"a", "b", "c">>)
      [] k = 9  -> Param(u, "Integer", "List", <<1, 2, 3>>, <<>>, <<>>, <<>>, <<"a", "b", "c">>)
      [] k = 10 -> Param(u, "Integer", "List", <<1, 0, 2>>, <<>>, <<>>, <<0>>, <<"a", "b", "c">>)
      [] k = 11 -> Param(u, "Integer", "Value", 7, <<>>, <<>>, <<>>, <<>>)
      [] k = 12 -> Param(u, "Integer", "List", <<1, 2, 3>>, <<>>, <<>>, <<3>>, <<"a", "b", "a">>)

\* A dict of sub-parameters from the options of its keys; an option is <<>> (no such key) or <<node>>.
Branch(zopt, aopt, gopt, dopt) ==
    [isParam |-> FALSE,
     dict |-> (IF zopt = <<>> THEN <<>> ELSE ("Zeta" :> zopt[1]))
              @@ (IF aopt = <<>> THEN <<>> ELSE ("alpha" :> aopt[1]))
              @@ (IF gopt = <<>> THEN <<>> ELSE ("gain" :> gopt[1]))
              @@ (IF dopt = <<>> THEN <<>> ELSE ("description" :> dopt[1]))]

\* The parameters the nested trees are built from, by code: none, or one of each usage.
ParamOpt(c) ==
    CASE c = 0 -> <<>>
      [] c = 1 -> <<ParamOf("In", 1)>>
      [] c = 2 -> <<ParamOf("InOut", 3)>>
      [] c = 3 -> <<ParamOf("Out", 11)>>
      [] c = 4 -> <<ParamOf("Info", 3)>>

\* Code c >= 5 is an innermost dict with the one parameter of code c - 4.
NodeOpt(c) == IF c <= 4 THEN ParamOpt(c) ELSE <<Branch(<<>>, ParamOpt(c - 4), <<>>, <<>>)>>

\* The dicts one level below the root: a description, parameters and an innermost dict.
MiddleOpt(a, g) == <<Branch(<<>>, ParamOpt(a), NodeOpt(g), <<"sub">>)>>

\* The codes of a key of the root: <<0, c, 0>> for ParamOpt(c), <<1, a, g>> for MiddleOpt(a, g).
RootCodes == {<<0, c, 0>> : c \in 0..4} \cup {<<1, a, g>> : a \in 0..4, g \in 0..8}

RootOpt(rc) == IF rc[1] = 0 THEN ParamOpt(rc[2]) ELSE MiddleOpt(rc[2], rc[3])

InitGui ==
    /\ NoSelection
    /\ NoModelRun
    /\ os_type = "Linux"
    /\ os_bits = "64bit"
    /\ gui_items = <<>>
    /\ new_traits = <<>>
    /\ gpc = "new"
    /\ \/ \E u \in ParamUsages, k \in ParamShapes, n \in {"Zeta", "gain"} :
            param = Branch(IF n = "Zeta" THEN <<ParamOf(u, k)>> ELSE <<>>, <<>>,
                           IF n = "gain" THEN <<ParamOf(u, k)>> ELSE <<>>, <<>>)
       \/ \E z \in RootCodes, a \in 0..4, g \in RootCodes, d \in {<<>>, <<"root">>} :
            param = Branch(RootOpt(z), ParamOpt(a), RootOpt(g), d)

\* make_gui_items("Model Specific In/InOut Parameters", param, first_call=True)
MakeGui ==
    /\ gpc = "new"
    /\ LET r == make_gui_items("Model Specific In/InOut Parameters", param, TRUE)
       IN  /\ gui_items' = r.gui_items
           /\ new_traits' = r.new_traits
    /\ gpc' = "built"
    /\ UNCHANGED <<param, os_type, os_bits, dll_file, ami_file>>
    /\ UNCHANGED selVars
    /\ UNCHANGED modVars

NextGui == MakeGui

SpecGui == InitGui /\ [][NextGui]_vars

-----------------------------------------------------------------------------
(* Properties of the selection cascade (Spec). *)

\* The name component c binds pin p to.
BoundName(c, p) == CompObj(model_dict, c).pins.val[p][1]

\* C1: after the component was changed to c (a component with at least one
\* eligible pin), the valid pin list is get_pins() of c, the current pin is its
\* first element, the valid model list is get_models of the name c binds that
\* pin to, and the current model is the first element of that list.
C1_CompChangeResetsPinAndModel ==
    (pc = "ready" /\ last.op = "comp"
        /\ get_pins(model_dict, CompObj(model_dict, comp), is_tx).val # <<>>)
    => LET gp == get_pins(model_dict, CompObj(model_dict, comp), is_tx).val
       IN  /\ pins = gp
           /\ pin = gp[1]
           /\ models = get_models(model_dict, BoundName(comp, pin))
           /\ mod = models[1]

\* C2: a step that changes the pin to p without changing the component leaves
\* the component and the valid pin list as they were, makes the valid model
\* list get_models of the name the component binds p to, and makes the current
\* model the first element of that list.
C2_PinChangeRecomputesModels ==
    [][(last'.op = "pin" /\ pin' # pin)
       => /\ comp' = comp
          /\ pins' = pins
          /\ pin' \in Range(pins)
          /\ models' = get_models(model_dict, BoundName(comp, pin'))
          /\ mod' = models'[1]]_vars

\* A pin change has happened in a component whose two pins lead to different model lists.
C2_Witness ==
    /\ pc = "ready"
    /\ last.op = "pin"
    /\ Len(pins) = 2
    /\ get_models(model_dict, BoundName(comp, pins[1]))
         # get_models(model_dict, BoundName(comp, pins[2]))
    /\ models = get_models(model_dict, BoundName(comp, pin))

\* C3: a step that changes the model to a member m of the valid model list
\* leaves the component, the pin, the valid pin list, the valid model list and
\* the cached pin entry as they were; only the model and the executable pair
\* resolved for it (dll_file, ami_file) are updated.
C3_ModChangeDoesNotCascade ==
    [][(last'.op = "mod" /\ mod' # mod)
       => /\ mod' \in Range(models)
          /\ UNCHANGED <<comp, pin, pins, models, pin_cache>>
          /\ LET f == ModChangedFiles(model_dict["models"][mod'], os_type, os_bits)
             IN  dll_file' = f.dll /\ ami_file' = f.ami]_vars

\* A model change has happened while the second pin was selected, and it resolved an executable pair.
C3_Witness ==
    /\ pc = "ready"
    /\ last.op = "mod"
    /\ Len(pins) = 2
    /\ pin = pins[2]
    /\ mod = models[2]
    /\ dll_file \notin {Unset, ""}

-----------------------------------------------------------------------------
(* Properties of get_pins and get_models (SpecBase). *)

PinKeys(c) == CompObj(model_dict, c).pins.keys

\* C4: for the component get_pins was called on, the list returned under the
\* object's direction flag and the list get_pins gives under the opposite flag
\* are disjoint, and together they are all the pins of the component.
C4_TxRxDisjoint ==
    ret.fn = "get_pins"
    => LET other == get_pins(model_dict, CompObj(model_dict, ret.arg), ~is_tx)
       IN  /\ ret.exc = NoExc
           /\ other.exc = NoExc
           /\ Range(ret.val) \cap Range(other.val) = {}
           /\ Range(ret.val) \cup Range(other.val) = Range(PinKeys(ret.arg))

\* get_pins returned some, but not all, pins of the component.
C4_Witness ==
    /\ ret.fn = "get_pins"
    /\ ret.val # <<>>
    /\ Len(ret.val) < Len(PinKeys(ret.arg))

\* The model type reached from pin p of component c: through the first
\* alternative when the bound name is a model selector, directly otherwise.
ReachedType(c, p) ==
    LET n == BoundName(c, p)
        first == IF "model_selectors" \in DOMAIN model_dict
                    /\ n \in DOMAIN model_dict["model_selectors"]
                 THEN model_dict["model_selectors"][n][1][1]
                 ELSE n
    IN  model_dict["models"][first].mtype

\* C5: under is_tx = true a pin is in the list get_pins returns exactly when
\* the model type reached from it is Output or I/O, and the list keeps the
\* order of the component's pin mapping.
C5_TxEligibility ==
    (ret.fn = "get_pins" /\ is_tx)
    => /\ \A p \in Range(PinKeys(ret.arg)) :
            (p \in Range(ret.val)) <=> (ReachedType(ret.arg, p) \in {"Output", "I/O"})
       /\ ret.val = SelectSeq(PinKeys(ret.arg), LAMBDA p : p \in Range(ret.val))

\* get_pins ran under is_tx on a component with a selector-bound pin whose
\* alternatives differ in eligibility, and kept some pin and dropped another.
C5_Witness ==
    /\ ret.fn = "get_pins"
    /\ is_tx
    /\ ret.val # <<>>
    /\ Len(ret.val) < Len(PinKeys(ret.arg))
    /\ \E p \in Range(PinKeys(ret.arg)) :
         /\ BoundName(ret.arg, p) = SelName
         /\ \E i \in DOMAIN model_dict["model_selectors"][SelName] :
              model_dict["models"][model_dict["model_selectors"][SelName][i][1]].mtype
                # ReachedType(ret.arg, p)

\* C6: get_models(name) returns the model names of selector name's
\* alternatives, one per alternative and in their order, when name is a key of
\* model_selectors; otherwise, and whenever the file has no model_selectors
\* section, the one-element list [name].
C6_GetModels ==
    ret.fn = "get_models"
    => IF "model_selectors" \in DOMAIN model_dict
          /\ ret.arg \in DOMAIN model_dict["model_selectors"]
       THEN /\ Len(ret.val) = Len(model_dict["model_selectors"][ret.arg])
            /\ \A i \in DOMAIN ret.val :
                 ret.val[i] = model_dict["model_selectors"][ret.arg][i][1]
       ELSE ret.val = <<ret.arg>>

\* get_models returned the two different alternatives of a selector.
C6_Witness ==
    /\ ret.fn = "get_models"
    /\ ret.arg = SelName
    /\ Len(ret.val) = 2
    /\ ret.val[1] # ret.val[2]

\* A required section is missing from the parsed file, or empty.
NoComponents == ~Has(model_dict, "components") \/ model_dict["components"].keys = <<>>
NoModels == ~Has(model_dict, "models") \/ DOMAIN model_dict["models"] = {}

\* C9: once the constructor has run on a file whose components section is
\* absent or empty, or whose models section is absent or empty, it has failed
\* with the error that names the missing section and carries the parser's
\* diagnostics, and no attribute of the selection exists.
C9_MissingSectionFails ==
    (pc # "new" /\ (NoComponents \/ NoModels))
    => /\ pc = "failed"
       /\ raised.type = "ValueError"
       /\ raised.section = (IF NoComponents THEN "components" ELSE "models")
       /\ raised.msgs = err_str
       /\ comp = "" /\ pins = <<>> /\ pin = "" /\ models = <<>> /\ mod = ""
       /\ ~pin_cache.valid
       /\ dll_file = Unset /\ ami_file = Unset

\* The constructor failed on a file with components but no models, with diagnostics to echo.
C9_Witness ==
    /\ pc = "failed"
    /\ ~NoComponents
    /\ NoModels
    /\ raised.section = "models"
    /\ raised.msgs # ""

-----------------------------------------------------------------------------
(* Properties of a model's executables (SpecExec). *)

\* The bit width platform.architecture() reports, as the table writes it.
HostWidth == IF os_bits = "64bit" THEN 64 ELSE 32

\* Entry e of the table is for the host's OS and bit width.
Matches(e) == Lower(e[1][1]) = Lower(os_type) /\ e[1][2] = HostWidth

MatchingEntries ==
    IF Has(subDict, "algorithmic_model")
    THEN {i \in DOMAIN subDict["algorithmic_model"] : Matches(subDict["algorithmic_model"][i])}
    ELSE {}

C8_NoMatchYieldsEmptyPair ==
    (mpc = "resolved" /\ Has(subDict, "algorithmic_model")
        /\ subDict["algorithmic_model"] # <<>> /\ MatchingEntries = {})
    => dll_file = "" /\ ami_file = ""

-----------------------------------------------------------------------------
(* Properties of Model(subDict) (SpecModel). *)

\* subDict has a [Ramp] with both rates.
HasFullRamp == Has(subDict, "ramp") /\ {"rising", "falling"} \subseteq DOMAIN subDict["ramp"]

\* C10: a model of type Output or I/O is constructed only if subDict carries a
\* pulldown table and a pullup table of at least 2 samples each and a ramp with
\* both of its rates; a model of any other type, given its type and voltage
\* range, is constructed whatever tables and ramp it carries.
C10_OutputNeedsCurvesAndRamp ==
    /\ (mpc = "built" /\ subDict["model_type"] \in {"Output", "I/O"})
       => /\ Has(subDict, "pulldown") /\ Len(subDict["pulldown"]) >= 2
          /\ Has(subDict, "pullup") /\ Len(subDict["pullup"]) >= 2
          /\ HasFullRamp
    /\ (mpc \in {"built", "failed"} /\ Has(subDict, "model_type")
           /\ subDict["model_type"] \notin {"Output", "I/O"} /\ Has(subDict, "voltage_range"))
       => /\ mpc = "built"
          /\ mraised = NoExc

\* An I/O model with tables and ramp was constructed.
C10_Witness ==
    /\ mpc = "built"
    /\ subDict["model_type"] = "I/O"
    /\ mobj.zout # <<>>


\* The voltages and the typical currents of an I-V table.
VoltsOf(xs) == [i \in DOMAIN xs |-> xs[i][1]]
TypsOf(xs) == [i \in DOMAIN xs |-> xs[i][2][1]]

\* An Output or I/O model was constructed from subDict.
BuiltOutput == mpc = "built" /\ subDict["model_type"] \in {"Output", "I/O"}

\* Twice the threshold as specified: vmeas when the model has one, half of the
\* maximum pulldown voltage otherwise.
SpecThreshold2 ==
    IF Has(subDict, "vmeas") THEN 2 * subDict["vmeas"]
    ELSE MaxOf(Range(VoltsOf(subDict["pulldown"])))

\* The indices of table xs whose voltage is at or above the specified threshold.
SpecCross(xs) == {i \in DOMAIN xs : 2 * xs[i][1] >= SpecThreshold2}

\* zout is the average of the resistances over samples i and i-1 of the two tables,
\* i being the first index at or above the specified threshold.
ZoutIsAdjacentAverage ==
    LET pd == subDict["pulldown"]
        pu == subDict["pullup"]
    IN  /\ SpecCross(pd) # {} /\ SpecCross(pu) # {}
        /\ LET i == MinOf(SpecCross(pd))
               j == MinOf(SpecCross(pu))
           IN  /\ i >= 2 /\ j >= 2
               /\ LET a == Abs(pd[i][1] - pd[i - 1][1])
                      b == Abs(pd[i][2][1] - pd[i - 1][2][1])
                      c == Abs(pu[j][1] - pu[j - 1][1])
                      d == Abs(pu[j][2][1] - pu[j - 1][2][1])
                  IN  /\ b # 0 /\ d # 0
                      /\ mobj.zout[1] * (2 * b * d) = (a * d + c * b) * mobj.zout[2]

\* The two tables have the same maximum voltage, or the model has a vmeas: the
\* threshold is then the same whichever table's maximum is halved.
ThresholdUnambiguous ==
    \/ Has(subDict, "vmeas")
    \/ MaxOf(Range(VoltsOf(subDict["pulldown"]))) = MaxOf(Range(VoltsOf(subDict["pullup"])))

\* C11: for every constructed Output or I/O model, zout is the average of the
\* pulldown-typical and the pullup-typical resistance, each |dv / di| over the
\* adjacent samples i and i-1, i the smallest index whose voltage is at or above
\* the threshold (checked where the threshold does not depend on the table).
C11_ZoutFromAdjacentSamples ==
    (BuiltOutput /\ ThresholdUnambiguous) => ZoutIsAdjacentAverage


\* Twice the threshold over a table's own voltages: vmeas when the model has
\* one, half of the maximum voltage of table xs otherwise.
OwnThreshold2(xs) ==
    IF Has(subDict, "vmeas") THEN 2 * subDict["vmeas"] ELSE MaxOf(Range(VoltsOf(xs)))

OwnCross(xs) == {i \in DOMAIN xs : 2 * xs[i][1] >= OwnThreshold2(xs)}

\* In both tables the first sample lies below the specified threshold and below
\* the table's own: the crossing index has a predecessor under either rule.
CrossingsInside ==
    /\ \A b \in {"pulldown", "pullup"} :
          /\ 2 * subDict[b][1][1] < SpecThreshold2
          /\ 2 * subDict[b][1][1] < OwnThreshold2(subDict[b])

C13_SlewIsMeanRate ==
    BuiltOutput
    => LET r == subDict["ramp"]["rising"][1]
           f == subDict["ramp"]["falling"][1]
       IN  /\ mobj.slew[1] = r + f
           /\ mobj.slew[2] = 2 * 1000000000
           /\ (r = 1 /\ f = 1) => mobj.slew[1] * 1000000000 = 1 * mobj.slew[2]

\* A model with unequal ramp rates was constructed.
C13_Witness ==
    /\ BuiltOutput
    /\ subDict["ramp"]["rising"][1] # subDict["ramp"]["falling"][1]
    /\ mobj.slew # <<>>


-----------------------------------------------------------------------------
(* Properties of the selection over raw files (SpecRaw). *)

\* The names the file defines: its models and its model selectors.
DefinedNames ==
    DOMAIN model_dict["models"]
    \cup (IF Has(model_dict, "model_selectors") THEN DOMAIN model_dict["model_selectors"] ELSE {})

\* The names the pins of the components and the alternatives of the selectors reference.
ReferencedNames ==
    UNION {{CompObj(model_dict, c).pins.val[p][1] : p \in Range(PinKeys(c))} :
              c \in Range(model_dict["components"].keys)}
    \cup (IF Has(model_dict, "model_selectors")
         THEN UNION {{model_dict["model_selectors"][n][i][1] :
                         i \in DOMAIN model_dict["model_selectors"][n]} :
                     n \in DOMAIN model_dict["model_selectors"]}
         ELSE {})

\* C14: a file in which a pin or a selector alternative references a name that
\* is neither a model nor a model selector fails at construction, so an object
\* that was constructed has no unresolved reference and no later component,
\* pin or model change fails on a name lookup.
C14_UnresolvedFailsAtConstruction ==
    pc = "ready" => (ReferencedNames \subseteq DefinedNames /\ last.exc # "KeyError")


-----------------------------------------------------------------------------
(* Properties of make_gui_items (SpecGui). *)

\* The child names of a parameter group in case-sensitive lexicographic order
\* (an upper-case letter sorts before every lower-case one).
LexOrder == <<"Zeta", "alpha", "gain">>

\* The usages a user may edit.
Editable(leaf) == leaf.pusage \in {"In", "InOut"}

\* The editable leaves of the tree under node, as (name, leaf) pairs, the
\* children of every group taken in LexOrder.
RECURSIVE LeavesOf(_, _)
LeavesOf(name, node) ==
    IF node.isParam THEN (IF Editable(node) THEN <<<<name, node>>>> ELSE <<>>)
    ELSE LET sub(k) == IF LexOrder[k] \in DOMAIN node.dict
                       THEN LeavesOf(LexOrder[k], node.dict[LexOrder[k]])
                       ELSE <<>>
         IN  sub(1) \o sub(2) \o sub(3)

\* The fields of a schema: the Items that carry a parameter name, at any depth.
RECURSIVE FieldsOf(_)
FieldsOf(items) ==
    IF items = <<>> THEN <<>>
    ELSE LET h == Head(items)
         IN  (IF h.cls = "Group" THEN FieldsOf(h.content)
              ELSE IF h.name # "" THEN <<h>> ELSE <<>>)
             \o FieldsOf(Tail(items))

RootName == "Model Specific In/InOut Parameters"

\* C15: the schema has a field and a trait for a leaf if and only if the leaf's
\* usage is In or InOut, at any nesting depth: as many fields and traits as
\* editable leaves, under the names of the editable leaves.
C15_OnlyEditableLeavesYieldFields ==
    gpc = "built"
    => LET leaves == LeavesOf(RootName, param)
           fields == FieldsOf(gui_items)
       IN  /\ Len(fields) = Len(leaves)
           /\ Len(new_traits) = Len(leaves)
           /\ {fields[i].name : i \in DOMAIN fields} = {leaves[i][1] : i \in DOMAIN leaves}
           /\ {new_traits[i][1] : i \in DOMAIN new_traits} = {leaves[i][1] : i \in DOMAIN leaves}

\* A schema was built from a tree with an In, an Out and an Info leaf and has one field.
C15_Witness ==
    /\ gpc = "built"
    /\ {"Zeta", "alpha", "gain"} \subseteq DOMAIN param.dict
    /\ \A n \in {"Zeta", "alpha", "gain"} : param.dict[n].isParam
    /\ {param.dict[n].pusage : n \in {"Zeta", "alpha", "gain"}} = {"In", "Out", "Info"}
    /\ Len(FieldsOf(gui_items)) = 1
    /\ Len(new_traits) = 1


\* The kind of field trait t and Item it stand for.
FieldKind(t, it) ==
    IF t.cls = "Bool" THEN "Toggle"
    ELSE IF t.cls = "Range" THEN "BoundedNumber"
    ELSE IF t.cls \in {"Trait", "Enum"} THEN "EnumChoice"
    ELSE IF it.style = "readonly" THEN "ReadOnlyDisplay"
    ELSE "Other"

\* The kind the rules give a leaf: Boolean first, then the format.
KindOf(leaf) ==
    IF leaf.ptype = "Boolean" THEN "Toggle"
    ELSE IF leaf.pformat = "Range" THEN "BoundedNumber"
    ELSE IF leaf.pformat = "List" THEN "EnumChoice"
    ELSE "ReadOnlyDisplay"

\* The fields of the schema named n, and the editable leaves named n.
FieldsNamed(n) == SelectSeq(FieldsOf(gui_items), LAMBDA f : f.name = n)
LeavesNamed(n) == SelectSeq(LeavesOf(RootName, param), LAMBDA l : l[1] = n)

\* C16: every editable leaf yields one field and one (name, default) entry, in
\* the order of the leaves; a Boolean is a Toggle whose default is the current
\* value whatever the format, else a Range is a BoundedNumber with bounds
\* (min, max) and the current value as default, else a List is an EnumChoice,
\* else the leaf is a ReadOnlyDisplay whose default is the value itself.
C16_FieldKindByTypeThenFormat ==
    gpc = "built"
    => LET leaves == LeavesOf(RootName, param)
       IN  /\ Len(new_traits) = Len(leaves)
           /\ \A n \in {"Zeta", "alpha", "gain"} : Len(FieldsNamed(n)) = Len(LeavesNamed(n))
           /\ \A k \in DOMAIN leaves :
                LET leaf == leaves[k][2]
                    t    == new_traits[k][2]
                    n    == leaves[k][1]
                IN  /\ new_traits[k][1] = n
                    /\ \E j \in DOMAIN FieldsNamed(n) :
                         FieldKind(t, FieldsNamed(n)[j]) = KindOf(leaf)
                    /\ KindOf(leaf) = "Toggle" => t.default = leaf.pvalue
                    /\ KindOf(leaf) = "BoundedNumber"
                         => /\ <<t.low, t.high>> = <<leaf.pmin, leaf.pmax>>
                            /\ t.default = leaf.pvalue
                    /\ KindOf(leaf) = "ReadOnlyDisplay" => t.default = leaf.pvalue

\* A schema was built from an editable Boolean leaf of List format.
C16_Witness ==
    /\ gpc = "built"
    /\ \E k \in DOMAIN LeavesOf(RootName, param) :
         /\ LeavesOf(RootName, param)[k][2].ptype = "Boolean"
         /\ LeavesOf(RootName, param)[k][2].pformat = "List"
         /\ new_traits[k][2].cls = "Bool"

\* The default the rules give an editable List leaf: with tags the tag of the
\* first value equal to the declared default, else the first tag; without tags
\* the declared default, else the first value.
ListDefaultOf(leaf) ==
    LET hits == IF leaf.pdefault = <<>> THEN {}
                ELSE {i \in DOMAIN leaf.pvalue : leaf.pvalue[i] = leaf.pdefault[1]}
    IN  IF leaf.plist_tip # <<>>
        THEN IF hits # {} THEN leaf.plist_tip[MinOf(hits)] ELSE leaf.plist_tip[1]
        ELSE IF leaf.pdefault # <<>> THEN leaf.pdefault[1] ELSE leaf.pvalue[1]

\* C17: for an editable List leaf the default choice is as ListDefaultOf says;
\* with tags the choices are the tags, without tags the raw listed values.
C17_ListDefaultChoice ==
    gpc = "built"
    => LET leaves == LeavesOf(RootName, param)
       IN  \A k \in DOMAIN leaves :
             LET leaf == leaves[k][2]
                 t    == new_traits[k][2]
             IN  (KindOf(leaf) = "EnumChoice" /\ k \in DOMAIN new_traits)
                 => /\ t.default = ListDefaultOf(leaf)
                    /\ leaf.plist_tip # <<>> => Range(t.map.keys) = Range(leaf.plist_tip)
                    /\ leaf.plist_tip = <<>> => Range(t.values) = Range(leaf.pvalue)


\* The layout of a schema node: its kind ("label", "field" or "section"), its
\* text, its orientation and the layouts of its content.
Layout(kind, text, orientation, content) ==
    [kind |-> kind, text |-> text, orientation |-> orientation, content |-> content]

\* The layout of the GUI items a schema is made of.
RECURSIVE LayoutOf(_)
LayoutOf(items) ==
    IF items = <<>> THEN <<>>
    ELSE LET h == Head(items)
         IN  <<IF h.cls = "Group" THEN Layout("section", h.label, h.orientation, LayoutOf(h.content))
               ELSE IF h.name # "" THEN Layout("field", h.name, "", <<>>)
               ELSE Layout("label", h.label, "", <<>>)>>
             \o LayoutOf(Tail(items))

\* The layout the rules give the group node under name: its label text (the
\* child "description", empty without one), one ungrouped vertical section with
\* the fields of its editable leaf children in LexOrder, then the sections of
\* its subgroups in LexOrder; horizontal for the root, vertical below it.
RECURSIVE SectionOf(_, _, _)
SectionOf(name, node, isRoot) ==
    LET here(k)   == LexOrder[k] \in DOMAIN node.dict
        child(k)  == node.dict[LexOrder[k]]
        field(k)  == IF here(k) /\ child(k).isParam /\ Editable(child(k))
                     THEN <<Layout("field", LexOrder[k], "", <<>>)>> ELSE <<>>
        group(k)  == IF here(k) /\ ~child(k).isParam
                     THEN <<SectionOf(LexOrder[k], child(k), FALSE)>> ELSE <<>>
        text      == IF "description" \in DOMAIN node.dict THEN node.dict["description"] ELSE ""
    IN  Layout("section", name, IF isRoot THEN "horizontal" ELSE "vertical",
               <<Layout("label", text, "", <<>>),
                 Layout("section", "", "vertical", field(1) \o field(2) \o field(3))>>
               \o group(1) \o group(2) \o group(3))

\* C18: the children of a group are visited in case-sensitive lexicographic
\* order of their names; the child "description" is the group's label text and
\* never a field; the fields of the leaf children stand, in that order, in one
\* ungrouped section before the sections of the subgroups; the root group is
\* horizontal and every nested group vertical.
C18_GroupLayout ==
    gpc = "built"
    => /\ LayoutOf(gui_items) = <<SectionOf(RootName, param, TRUE)>>
       /\ [k \in DOMAIN new_traits |-> new_traits[k][1]]
            = [k \in DOMAIN LeavesOf(RootName, param) |-> LeavesOf(RootName, param)[k][1]]
       /\ \A k \in DOMAIN FieldsOf(gui_items) : FieldsOf(gui_items)[k].name # "description"

\* A schema was built from a root with a description, a subgroup under the
\* upper-case name and editable leaves under the two lower-case names.
C18_Witness ==
    /\ gpc = "built"
    /\ DOMAIN param.dict = {"Zeta", "alpha", "gain", "description"}
    /\ ~param.dict["Zeta"].isParam
    /\ LeavesOf("Zeta", param.dict["Zeta"]) # <<>>
    /\ param.dict["alpha"].isParam /\ Editable(param.dict["alpha"])
    /\ param.dict["gain"].isParam /\ Editable(param.dict["gain"])
    /\ new_traits[Len(new_traits)][1] = "gain"


-----------------------------------------------------------------------------
(* Invariants of the selection (Spec). *)

\* C19: in every state reached after construction by component, pin and model
\* changes (the last of which raised nothing): the valid pin list is get_pins()
\* of the current component, the current pin is one of them, the valid model
\* list is get_models of the name the current component binds the current pin
\* to, and the current model is one of them.
C19_SelectionInvariant ==
    (pc = "ready" /\ last.exc = NoExc)
    => /\ pins = get_pins(model_dict, CompObj(model_dict, comp), is_tx).val
       /\ pin \in Range(pins)
       /\ models = get_models(model_dict, BoundName(comp, pin))
       /\ mod \in Range(models)


\* C20: the pin entry a read of pin_ (and of pin_rlcs, its second element)
\* returns is the one the current component binds to the current pin name: a
\* value kept from a read under another component is never returned (checked
\* in the states whose last change raised nothing).
C20_PinEntryIsCurrent ==
    (pc = "ready" /\ last.exc = NoExc /\ pin_cache.valid /\ pin \in Range(pins)
        /\ pin \in DOMAIN CompObj(model_dict, comp).pins.val)
    => pin_cache.val = CompObj(model_dict, comp).pins.val[pin]


-----------------------------------------------------------------------------
(* The exposed executable pair and a component without eligible pins (Spec). *)

\* The [Algorithmic Model] table of the model trait mod names, empty when the model has none.
SelectedTable ==
    LET sd == model_dict["models"][mod].subDict
    IN  IF Has(sd, "algorithmic_model") THEN sd["algorithmic_model"] ELSE <<>>

\* The entries of that table for the host's OS and bit width.
SelectedMatches == {i \in DOMAIN SelectedTable : Matches(SelectedTable[i])}

\* The pair the selected model's table resolves to on the host: the first two
\* file names of its first matching entry, the empty pair without a match.
ExpectedPair ==
    IF SelectedMatches = {} THEN <<"", "">>
    ELSE LET e == SelectedTable[MinOf(SelectedMatches)] IN <<e[2][1], e[2][2]>>

\* C21: in every state from the end of construction on, whatever component,
\* pin and model changes followed, dll_file and ami_file are defined and are
\* the pair the table of the currently selected model resolves to on the host
\* (the empty pair without a table or a match), never the pair of another model.
C21_ExecPairIsCurrent ==
    (pc = "ready")
    => /\ dll_file # Unset /\ ami_file # Unset
       /\ mod \in DOMAIN model_dict["models"]
       /\ <<dll_file, ami_file>> = ExpectedPair

\* get_pins() of component c under the object's direction flag.
ValidPins(c) == get_pins(model_dict, CompObj(model_dict, c), is_tx)

\* C22: a step that selects a component none of whose pins is eligible under
\* the direction flag fails (its handler raises), and leaves the valid pin
\* list, the current pin, the valid model list and the current model as they
\* were: an empty pin list is never held together with the pin of before.
C22_NoEligiblePinLeavesSelection ==
    [][(pc = "ready" /\ comp' # comp
           /\ ValidPins(comp').exc = NoExc /\ ValidPins(comp').val = <<>>)
       => /\ last'.op = "comp" /\ last'.exc # NoExc
          /\ UNCHANGED <<pins, pin, models, mod>>]_vars

=============================================================================
